---- MODULE Spec2Model ----
(***************************************************************************)
(* cloudstorage2bq: load every file under each second-level prefix of a    *)
(* bucket into a BigQuery dataset (src/cloudstorage2bq/__main__.py).       *)
(*                                                                         *)
(* Strings are sequences of one-character strings, so that basename,       *)
(* splitext, re.sub, rstrip and startswith are computed character by       *)
(* character as Python computes them.                                      *)
(***************************************************************************)
EXTENDS Integers, Sequences, FiniteSets, TLC

(***************************************************************************)
(* Characters                                                              *)
(***************************************************************************)
Lower == {"a","b","c","d","e","f","g","h","i","j","k","l","m",
          "n","o","p","q","r","s","t","u","v","w","x","y","z"}

Upper == {"A","B","C","D","E","F","G","H","I","J","K","L","M",
          "N","O","P","Q","R","S","T","U","V","W","X","Y","Z"}

Digits == {"0","1","2","3","4","5","6","7","8","9"}

\* the code points of the characters the model uses, in increasing order
\* (the object store lists names in lexicographic order of their bytes)
AsciiOrder ==
    << " ", "!", "-", ".", "/",
       "0","1","2","3","4","5","6","7","8","9", ":",
       "A","B","C","D","E","F","G","H","I","J","K","L","M",
       "N","O","P","Q","R","S","T","U","V","W","X","Y","Z", "_",
       "a","b","c","d","e","f","g","h","i","j","k","l","m",
       "n","o","p","q","r","s","t","u","v","w","x","y","z", "~" >>

Ord(c) == CHOOSE i \in 1..Len(AsciiOrder) : AsciiOrder[i] = c

\* s < t in Python's string order
RECURSIVE StrLess(_, _)
StrLess(s, t) ==
    IF t = << >> THEN FALSE
    ELSE IF s = << >> THEN TRUE
    ELSE IF Head(s) = Head(t) THEN StrLess(Tail(s), Tail(t))
    ELSE Ord(Head(s)) < Ord(Head(t))

\* str.startswith
startswith(s, p) ==
    /\ Len(p) <= Len(s)
    /\ SubSeq(s, 1, Len(p)) = p

\* the largest index of character c in s, 0 when absent (str.rfind + 1)
rfind(s, c) ==
    LET I == {i \in 1..Len(s) : s[i] = c}
    IN  IF I = {} THEN 0 ELSE CHOOSE i \in I : \A j \in I : j <= i

\* the smallest index of character c in s, 0 when absent (str.find + 1)
find(s, c) ==
    LET I == {i \in 1..Len(s) : s[i] = c}
    IN  IF I = {} THEN 0 ELSE CHOOSE i \in I : \A j \in I : i <= j

\* os.path.basename: what follows the last "/"
basename(p) == SubSeq(p, rfind(p, "/") + 1, Len(p))

\* os.path.splitext(p)[0]: cut at the last "." of the last path component,
\* unless only dots precede it in that component (a leading dot is no extension)
splitext_root(p) ==
    LET sepIndex == rfind(p, "/")
        dotIndex == rfind(p, ".")
    IN  IF /\ dotIndex > sepIndex
           /\ \E k \in (sepIndex + 1)..(dotIndex - 1) : p[k] # "."
        THEN SubSeq(p, 1, dotIndex - 1)
        ELSE p

\* the character class [a-zA-Z0-9_]
IsWordChar(c) == c \in Lower \cup Upper \cup Digits \cup {"_"}

\* the substitution with "-" added to the characters it keeps
re_sub_KeepsDash(s) ==
    [i \in 1..Len(s) |-> IF IsWordChar(s[i]) \/ s[i] = "-" THEN s[i] ELSE "_"]

\* the substitution with the digits missing from the characters it keeps
re_sub_NoDigits(s) ==
    [i \in 1..Len(s) |-> IF IsWordChar(s[i]) /\ s[i] \notin Digits THEN s[i] ELSE "_"]

\* re.sub(r"[^a-zA-Z0-9_]", "_", s)
re_sub(s) == [i \in 1..Len(s) |-> IF IsWordChar(s[i]) THEN s[i] ELSE "_"]

\* str.isalpha on one character of the model's alphabet
isalpha(c) == c \in Lower \cup Upper

\* str.rstrip("/"): every trailing "/" is removed
RECURSIVE rstrip(_)
rstrip(s) ==
    IF s # << >> /\ s[Len(s)] = "/" THEN rstrip(SubSeq(s, 1, Len(s) - 1))
    ELSE s

\* f"gs://{bucket_name}/{blob.name}" for the bucket named "b"
GsUri(name) == << "g", "s", ":", "/", "/", "b", "/" >> \o name

\* a set of strings as the list in increasing order
SortedList(S) ==
    [i \in 1..Cardinality(S) |->
        CHOOSE n \in S : Cardinality({m \in S : StrLess(m, n)}) = i - 1]

\* bucket.list_blobs(prefix=prefix): the names that start with prefix, in order
list_blobs(objects, prefix) ==
    SortedList({n \in objects : startswith(n, prefix)})

\* blobs.prefixes after a listing with delimiter "/": for every name under
\* prefix with a "/" after the prefix, the name up to and including that "/"
blob_prefixes(objects, prefix) ==
    LET rest(n) == SubSeq(n, Len(prefix) + 1, Len(n))
    IN  { SubSeq(n, 1, Len(prefix) + find(rest(n), "/")) :
            n \in {m \in objects : startswith(m, prefix) /\ find(rest(m), "/") > 0} }

\* list_files: the gs:// uri of every listed blob
list_files(objects, prefix) ==
    LET blobs == list_blobs(objects, prefix)
    IN  [i \in 1..Len(blobs) |-> GsUri(blobs[i])]

\* list.remove(x): the first occurrence of x is taken out
remove(l, x) ==
    LET i == CHOOSE k \in 1..Len(l) : l[k] = x /\ \A m \in 1..(k - 1) : l[m] # x
    IN  SubSeq(l, 1, i - 1) \o SubSeq(l, i + 1, Len(l))

(***************************************************************************)
(* Inputs: the bucket's objects, the command line, the warehouse before    *)
(* the run                                                                 *)
(***************************************************************************)
\* --bucket_prefix: the root under which the second-level prefixes are listed
RootPrefix == << "r", "/" >>

\* object names a bucket may hold
Universe ==
    { << "r", "/", "o", "/", "a", ".", "p" >>,            \* r/o/a.p
      << "r", "/", "o", "/", "a", "-", "b", ".", "p" >>,  \* r/o/a-b.p
      << "r", "/", "o", "/", "a", "_", "b", ".", "p" >>,  \* r/o/a_b.p
      << "r", "/", "o", "/", "x", "/", "a", ".", "p" >>,  \* r/o/x/a.p
      << "r", "/", "o", "/", "1", "a", ".", "p" >>,       \* r/o/1a.p
      << "r", "/", "o", "/" >>,                           \* r/o/ (a folder placeholder)
      << "r", "/", "o", "2", "/", "b", ".", "p" >>,       \* r/o2/b.p
      << "r", "/", "q", "-", "/", "c", ".", "p" >>,       \* r/q-/c.p
      << "r", "/", "q", "_", "/", "c", ".", "p" >>,       \* r/q_/c.p
      << "r", "/", "o", "/", "~", ".", "p" >> }           \* r/o/~.p

\* the largest number of objects in the bucket
MaxObjects == 3

Buckets == {B \in SUBSET Universe : Cardinality(B) <= MaxObjects}

\* values of --table_name_prefix
TablePrefixes == { << >>, << "t", "_" >>, << "1", "-" >> }

\* the warehouse before the run: its datasets and their tables
InitialWarehouses ==
    { [datasets |-> {}, tables |-> {}],
      [datasets |-> {<< "r", "_", "o" >>},
       tables   |-> { << << "r", "_", "o" >>, << "a" >> >>,
                      << << "r", "_", "o" >>, << "t", "_", "a", "_", "b" >> >> }] }

\* Scenario A of the specification: the bucket holds raw/orders/2024.parquet
\* and raw/orders/2025.parquet, the root prefix is raw/, the table name
\* prefix is empty and the warehouse is empty
ScenarioA ==
    [bucket |->
        { << "r","a","w","/","o","r","d","e","r","s","/",
             "2","0","2","4",".","p","a","r","q","u","e","t" >>,
          << "r","a","w","/","o","r","d","e","r","s","/",
             "2","0","2","5",".","p","a","r","q","u","e","t" >> },
     bucket_prefix |-> << "r","a","w","/" >>,
     table_name_prefix |-> << >>,
     datasets |-> {},
     tables |-> {}]

\* what a run starts from: the bucket, the command line, the warehouse
RunInputs ==
    { [bucket |-> B, bucket_prefix |-> RootPrefix, table_name_prefix |-> t,
       datasets |-> w.datasets, tables |-> w.tables] :
         B \in Buckets, t \in TablePrefixes, w \in InitialWarehouses }
    \cup {ScenarioA}

VARIABLES
    bucket,                 \* the objects of the bucket
    bucket_prefix,          \* the command-line argument --bucket_prefix
    table_name_prefix,      \* the command-line argument
    datasets,               \* warehouse: the datasets that exist
    tables,                 \* warehouse: <<dataset, table>> of the tables that exist
    wjobs,                  \* warehouse: the load jobs, in order of submission
    pc,                     \* where the program is
    error,                  \* the exception that ended the run, "none" otherwise
    prefixes,               \* blobs.prefixes not yet iterated over
    prefix,                 \* load_all_datasets: prefix (stripped)
    dataset_name,           \* load_all_datasets: dataset_name
    all_tables_in_dataset,  \* load_prefix_to_dataset: the table ids listed
    files,                  \* the files the for loop has not reached yet
    jobs,                   \* load_prefix_to_dataset: jobs (indices into wjobs)
    idx,                    \* the position of the iterator of "for load_job in jobs"
    log,                    \* the logger's records
    calls,                  \* the warehouse and storage requests made, in order
    ncall,                  \* how many calls of load_prefix_to_dataset have begun
    snapshots,              \* the listing of line 67 of every call so far, in order
    passStart,              \* jobs when the current pass of the poll loop began
    passDone,               \* the jobs of passStart that were done at that moment
    observed                \* a done() of the current pass returned True

vars == << bucket, bucket_prefix, table_name_prefix, datasets, tables, wjobs, pc, error,
           prefixes, prefix, dataset_name, all_tables_in_dataset, files, jobs,
           idx, log, calls, ncall, snapshots, passStart, passDone, observed >>

inputVars == << bucket, bucket_prefix, table_name_prefix >>
warehouseVars == << datasets, tables, wjobs >>
walkerVars == << prefixes, prefix, dataset_name >>
historyVars == << log, calls, ncall, snapshots >>
pollVars == << idx, passStart, passDone, observed >>

Init ==
    /\ \E in \in RunInputs :
          /\ bucket = in.bucket
          /\ bucket_prefix = in.bucket_prefix
          /\ table_name_prefix = in.table_name_prefix
          /\ datasets = in.datasets
          /\ tables = in.tables
    /\ wjobs = << >>
    /\ pc = "list_prefixes"
    /\ error = "none"
    /\ prefixes = {}
    /\ prefix = << >>
    /\ dataset_name = << >>
    /\ all_tables_in_dataset = {}
    /\ files = << >>
    /\ jobs = << >>
    /\ idx = 0
    /\ log = << >>
    /\ calls = << >>
    /\ ncall = 0
    /\ snapshots = << >>
    /\ passStart = << >>
    /\ passDone = {}
    /\ observed = FALSE

\* an exception nothing catches: the run is over
Raise(e) ==
    /\ pc' = "raised"
    /\ error' = e

(***************************************************************************)
(* load_all_datasets                                                       *)
(***************************************************************************)
\* lines 136-141: the listing with delimiter "/" is consumed, which fills
\* blobs.prefixes
ListPrefixes ==
    /\ pc = "list_prefixes"
    /\ prefixes' = blob_prefixes(bucket, bucket_prefix)
    /\ pc' = "for_prefix"
    /\ UNCHANGED << inputVars, warehouseVars, error, prefix, dataset_name,
                    all_tables_in_dataset, files, jobs, pollVars, log, calls, ncall, snapshots >>

\* line 147: the dataset id of a prefix
DatasetName(p) == re_sub(p)

\* lines 143-148: the next prefix of blobs.prefixes, a set, which Python
\* iterates in no particular order; load_prefix_to_dataset is entered
NextPrefix ==
    /\ pc = "for_prefix"
    /\ \E p \in prefixes :
          /\ prefixes' = prefixes \ {p}
          /\ prefix' = rstrip(p)
          /\ dataset_name' = DatasetName(rstrip(p))
    /\ ncall' = ncall + 1
    /\ pc' = "get_dataset"
    /\ UNCHANGED << inputVars, warehouseVars, error, all_tables_in_dataset,
                    files, jobs, pollVars, log, calls, snapshots >>

\* line 143: blobs.prefixes is exhausted, load_all_datasets and main return
RunEnds ==
    /\ pc = "for_prefix"
    /\ prefixes = {}
    /\ pc' = "exit"
    /\ UNCHANGED << inputVars, warehouseVars, error, walkerVars,
                    all_tables_in_dataset, files, jobs, pollVars, log, calls, ncall, snapshots >>

(***************************************************************************)
(* load_prefix_to_dataset: the dataset                                     *)
(***************************************************************************)
\* one request to the warehouse or the object store, and how it ended
Call(op, ds, res) == [op |-> op, dataset |-> ds, res |-> res, call |-> ncall]

\* lines 59-61: get_dataset finds the dataset
GetDatasetFound ==
    /\ pc = "get_dataset"
    /\ dataset_name \in datasets
    /\ calls' = Append(calls, Call("get_dataset", dataset_name, "ok"))
    /\ log' = Append(log, [kind |-> "got_dataset", dataset |-> dataset_name])
    /\ pc' = "list_tables"
    /\ UNCHANGED << inputVars, warehouseVars, error, walkerVars,
                    all_tables_in_dataset, files, jobs, pollVars, ncall, snapshots >>

\* an exception clause that catches every exception
Catches_Any(e) == TRUE

\* the exception clause of line 62
Catches(e) == e = "NotFound"

\* lines 60, 62: get_dataset raises; NotFound when the dataset does not exist,
\* and any other failure of the request at any time
GetDatasetRaises ==
    /\ pc = "get_dataset"
    /\ \E e \in {"NotFound", "Forbidden"} :
          /\ e = "NotFound" => dataset_name \notin datasets
          /\ calls' = Append(calls, Call("get_dataset", dataset_name, e))
          /\ IF Catches(e)
             THEN pc' = "create_dataset" /\ error' = error
             ELSE Raise(e)
    /\ UNCHANGED << inputVars, warehouseVars, walkerVars, all_tables_in_dataset,
                    files, jobs, pollVars, log, ncall, snapshots >>

\* lines 63-64: the dataset is created
CreateDataset ==
    /\ pc = "create_dataset"
    /\ calls' = Append(calls, Call("create_dataset", dataset_name, "ok"))
    /\ datasets' = datasets \cup {dataset_name}
    /\ pc' = "list_tables"
    /\ UNCHANGED << inputVars, tables, wjobs, error, walkerVars,
                    all_tables_in_dataset, files, jobs, pollVars, log, ncall, snapshots >>

\* line 64: create_dataset fails; nothing catches it
CreateDatasetRaises ==
    /\ pc = "create_dataset"
    /\ calls' = Append(calls, Call("create_dataset", dataset_name, "CreateFailed"))
    /\ Raise("CreateFailed")
    /\ UNCHANGED << inputVars, warehouseVars, walkerVars, all_tables_in_dataset,
                    files, jobs, pollVars, log, ncall, snapshots >>

\* a listing that is not restricted to the dataset
list_tables_AllDatasets(tbls, ds) == {t[2] : t \in tbls}

\* client.list_tables: the table ids of the dataset's tables
list_tables(tbls, ds) == {t[2] : t \in {u \in tbls : u[1] = ds}}

\* lines 67-69: the table ids of the dataset, listed once
ListTables ==
    /\ pc = "list_tables"
    /\ calls' = Append(calls, Call("list_tables", dataset_name, "ok"))
    /\ all_tables_in_dataset' = list_tables(tables, dataset_name)
    /\ snapshots' = Append(snapshots, list_tables(tables, dataset_name))
    /\ pc' = "list_files"
    /\ UNCHANGED << inputVars, warehouseVars, error, walkerVars, files, jobs,
                    pollVars, log, ncall >>

\* lines 72, 75: the files under the prefix; jobs = []
ListFiles ==
    /\ pc = "list_files"
    /\ calls' = Append(calls, Call("list_files", dataset_name, "ok"))
    /\ files' = list_files(bucket, prefix)
    /\ jobs' = << >>
    /\ pc' = "for_file"
    /\ UNCHANGED << inputVars, warehouseVars, error, walkerVars,
                    all_tables_in_dataset, pollVars, log, ncall, snapshots >>

(***************************************************************************)
(* load_prefix_to_dataset: one load job per file                           *)
(***************************************************************************)
\* lines 79-81: the file's base name without its extension, sanitized
TableStem(file) == re_sub(splitext_root(basename(file)))

\* the check of line 83 with its assertion left out
LeadingCheck_NoAssert(table_name) ==
    IF table_name = << >> THEN "IndexError" ELSE "ok"

\* line 83: assert table_name[0].isalpha(); indexing an empty string raises
\* IndexError before the assertion is evaluated
LeadingCheck(table_name) ==
    IF table_name = << >> THEN "IndexError"
    ELSE IF isalpha(table_name[1]) THEN "ok"
    ELSE "AssertionError"

\* line 84: f"{table_name_prefix}{table_name}"
PrefixedName(tnp, table_name) == tnp \o table_name

\* the membership test of line 87 against a listing that was never filled
TableExists_EmptyListing(table_name, catalog) == table_name \in {}

\* line 87: table_name in all_tables_in_dataset
TableExists(table_name, catalog) == table_name \in catalog

\* lines 92-98: the load job as the warehouse receives it
NewJob(file, ds, table_name) ==
    [source |-> file, dataset |-> ds, table |-> table_name,
     state |-> "pending", call |-> ncall]

\* the jobs of list l whose done() would return True now
DoneAmong(l) == {l[k] : k \in {i \in 1..Len(l) : wjobs[l[i]].state # "pending"}}

\* lines 77-83: the leading-character check fails and ends the run (the
\* logger call of line 82, which only repeats the name, is not recorded)
FileRaises ==
    /\ pc = "for_file"
    /\ files # << >>
    /\ LeadingCheck(TableStem(Head(files))) # "ok"
    /\ log' = Append(log, [kind |-> "processing", file |-> Head(files)])
    /\ files' = Tail(files)
    /\ Raise(LeadingCheck(TableStem(Head(files))))
    /\ UNCHANGED << inputVars, warehouseVars, walkerVars, all_tables_in_dataset,
                    jobs, pollVars, calls, ncall, snapshots >>

\* lines 77-89: the table is in the listing taken at line 67: skipped
FileSkipped ==
    /\ pc = "for_file"
    /\ files # << >>
    /\ LeadingCheck(TableStem(Head(files))) = "ok"
    /\ LET table_name == PrefixedName(table_name_prefix, TableStem(Head(files)))
       IN  /\ TableExists(table_name, all_tables_in_dataset)
           /\ log' = log \o << [kind |-> "processing", file |-> Head(files)],
                               [kind |-> "skip", table |-> table_name] >>
    /\ files' = Tail(files)
    /\ UNCHANGED << inputVars, warehouseVars, pc, error, walkerVars,
                    all_tables_in_dataset, jobs, pollVars, calls, ncall, snapshots >>

\* lines 77-100: a load job is submitted and appended to jobs
FileSubmitted ==
    /\ pc = "for_file"
    /\ files # << >>
    /\ LeadingCheck(TableStem(Head(files))) = "ok"
    /\ LET table_name == PrefixedName(table_name_prefix, TableStem(Head(files)))
           job == NewJob(Head(files), dataset_name, table_name)
       IN  /\ ~TableExists(table_name, all_tables_in_dataset)
           /\ wjobs' = Append(wjobs, job)
           /\ jobs' = Append(jobs, Len(wjobs) + 1)
           /\ calls' = Append(calls, Call("load_table_from_uri", dataset_name, "ok"))
           /\ log' = log \o << [kind |-> "processing", file |-> Head(files)],
                               [kind |-> "started", job |-> Len(wjobs) + 1] >>
    /\ files' = Tail(files)
    /\ UNCHANGED << inputVars, datasets, tables, pc, error, walkerVars,
                    all_tables_in_dataset, pollVars, ncall, snapshots >>

\* lines 76, 102-104: the files are exhausted; the first pass of the poll
\* loop begins
FilesExhausted ==
    /\ pc = "for_file"
    /\ files = << >>
    /\ pc' = "poll"
    /\ idx' = 0
    /\ passStart' = jobs
    /\ passDone' = DoneAmong(jobs)
    /\ observed' = FALSE
    /\ UNCHANGED << inputVars, warehouseVars, error, walkerVars,
                    all_tables_in_dataset, files, jobs, log, calls, ncall, snapshots >>

(***************************************************************************)
(* load_prefix_to_dataset: the poll loop                                   *)
(***************************************************************************)
\* line 105: load_job.done()
JobDone(job) == job.state # "pending"

\* line 109: load_job.result(). For a finished job google-cloud-bigquery's
\* result() returns the job when it succeeded and raises the error built
\* from error_result (a GoogleAPICallError) when it failed
ResultRaises(job) == job.state = "error"

\* line 112: load_job.error_result
ErrorResult(job) == job.state = "error"

\* line 104: the list iterator yields jobs[idx] (0-based) while idx < len(jobs)
IteratorHasNext(i, l) == i < Len(l)

\* line 122: jobs.remove(load_job)
JobsRemove(l, load_job) == remove(l, load_job)

\* the test of line 124 replaced by one that ends the loop after any pass
LoopExit_AfterOnePass(l) == TRUE

\* line 124: len(jobs) == 0
LoopExit(l) == Len(l) = 0

\* lines 104-106: the next job of the pass is not done: continue
PollPending ==
    /\ pc = "poll"
    /\ IteratorHasNext(idx, jobs)
    /\ ~JobDone(wjobs[jobs[idx + 1]])
    /\ idx' = idx + 1
    /\ UNCHANGED << inputVars, warehouseVars, pc, error, walkerVars,
                    all_tables_in_dataset, files, jobs, passStart, passDone, observed,
                    log, calls, ncall, snapshots >>

\* lines 104-122: the next job of the pass is done and result() returns: its
\* outcome is logged and it is removed from the list being iterated. The
\* error record of lines 112-116 is kept as the code has it; as result()
\* raises for every job with an error_result, no run reaches it
PollCompleted ==
    /\ pc = "poll"
    /\ IteratorHasNext(idx, jobs)
    /\ LET load_job == jobs[idx + 1]
       IN  /\ JobDone(wjobs[load_job])
           /\ ~ResultRaises(wjobs[load_job])
           /\ log' = Append(log,
                        [kind |-> IF ErrorResult(wjobs[load_job])
                                  THEN "error" ELSE "completed",
                         job |-> load_job])
           /\ jobs' = JobsRemove(jobs, load_job)
    /\ idx' = idx + 1
    /\ observed' = TRUE
    /\ UNCHANGED << inputVars, warehouseVars, pc, error, walkerVars,
                    all_tables_in_dataset, files, passStart, passDone, calls, ncall, snapshots >>

\* lines 104-109: the next job of the pass is done and result() raises;
\* nothing catches it
PollRaises ==
    /\ pc = "poll"
    /\ IteratorHasNext(idx, jobs)
    /\ JobDone(wjobs[jobs[idx + 1]])
    /\ ResultRaises(wjobs[jobs[idx + 1]])
    /\ idx' = idx + 1
    /\ observed' = TRUE
    /\ Raise("JobFailed")
    /\ UNCHANGED << inputVars, warehouseVars, walkerVars, all_tables_in_dataset,
                    files, jobs, passStart, passDone, log, calls, ncall, snapshots >>

\* lines 103, 124: the pass is over and jobs is not empty: another pass
PollAgain ==
    /\ pc = "poll"
    /\ ~IteratorHasNext(idx, jobs)
    /\ ~LoopExit(jobs)
    /\ idx' = 0
    /\ passStart' = jobs
    /\ passDone' = DoneAmong(jobs)
    /\ observed' = FALSE
    /\ UNCHANGED << inputVars, warehouseVars, pc, error, walkerVars,
                    all_tables_in_dataset, files, jobs, log, calls, ncall, snapshots >>

\* lines 124-125: the pass is over and jobs is empty: load_prefix_to_dataset
\* returns to the loop of load_all_datasets, and the locals of the poll loop
\* are gone
PollReturns ==
    /\ pc = "poll"
    /\ ~IteratorHasNext(idx, jobs)
    /\ LoopExit(jobs)
    /\ pc' = "for_prefix"
    /\ idx' = 0
    /\ passStart' = << >>
    /\ passDone' = {}
    /\ observed' = FALSE
    /\ UNCHANGED << inputVars, warehouseVars, error, walkerVars,
                    all_tables_in_dataset, files, jobs, log, calls, ncall, snapshots >>

(***************************************************************************)
(* The warehouse: a submitted load job runs on its own                     *)
(***************************************************************************)
\* a pending job succeeds: its destination table exists from now on
JobSucceeds ==
    \E j \in 1..Len(wjobs) :
        /\ wjobs[j].state = "pending"
        /\ wjobs' = [wjobs EXCEPT ![j].state = "ok"]
        /\ tables' = tables \cup {<< wjobs[j].dataset, wjobs[j].table >>}
        /\ UNCHANGED << inputVars, datasets, pc, error, walkerVars,
                        all_tables_in_dataset, files, jobs, pollVars, log,
                        calls, ncall, snapshots >>

\* a pending job fails: it is done with an error payload
JobFails ==
    \E j \in 1..Len(wjobs) :
        /\ wjobs[j].state = "pending"
        /\ wjobs' = [wjobs EXCEPT ![j].state = "error"]
        /\ UNCHANGED << inputVars, datasets, tables, pc, error, walkerVars,
                        all_tables_in_dataset, files, jobs, pollVars, log,
                        calls, ncall, snapshots >>

Program ==
    \/ ListPrefixes
    \/ NextPrefix
    \/ RunEnds
    \/ GetDatasetFound
    \/ GetDatasetRaises
    \/ CreateDataset
    \/ CreateDatasetRaises
    \/ ListTables
    \/ ListFiles
    \/ FileRaises
    \/ FileSkipped
    \/ FileSubmitted
    \/ FilesExhausted
    \/ PollPending
    \/ PollCompleted
    \/ PollRaises
    \/ PollAgain
    \/ PollReturns

Next ==
    \/ Program
    \/ JobSucceeds
    \/ JobFails

Spec == Init /\ [][Next]_vars

(***************************************************************************)
(* Properties                                                              *)
(***************************************************************************)
\* lines 79-84: the table id load_prefix_to_dataset derives from a file
DerivedTable(file) == PrefixedName(table_name_prefix, TableStem(file))

\* the objects list_files yields for the prefix being processed
ListedFiles == {GsUri(n) : n \in {m \in bucket : startswith(m, prefix)}}

\* C1 (skip law): no load job was ever submitted, in any call of
\* load_prefix_to_dataset, for a file whose derived table id is in the
\* listing that call took at line 67; so no such job is in jobs either, and
\* the listing the loop tests against is that very listing.
C1_SkipLaw ==
    /\ \A j \in 1..Len(wjobs) :
          DerivedTable(wjobs[j].source) \notin snapshots[wjobs[j].call]
    /\ \A k \in 1..Len(jobs) :
          DerivedTable(wjobs[jobs[k]].source) \notin all_tables_in_dataset
    /\ pc \in {"for_file", "poll"} => all_tables_in_dataset = snapshots[ncall]

\* a file of the prefix whose table was in the listing has been passed over
\* while another file of the same call was submitted
C1_Witness ==
    /\ pc = "poll"
    /\ jobs # << >>
    /\ \E f \in ListedFiles :
          /\ LeadingCheck(TableStem(f)) = "ok"
          /\ DerivedTable(f) \in all_tables_in_dataset
          /\ \E i \in 1..Len(log) :
                log[i] = [kind |-> "skip", table |-> DerivedTable(f)]

\* C2 (stated as claimed): within one call of load_prefix_to_dataset at most
\* one load job is submitted per destination table.
C2_AtMostOneJobPerTable ==
    \A i, j \in 1..Len(wjobs) :
        (i # j /\ wjobs[i].call = wjobs[j].call)
            => << wjobs[i].dataset, wjobs[i].table >>
                 # << wjobs[j].dataset, wjobs[j].table >>

\* a table id: letters, digits and underscore only, the first a letter
IsValidTableId(s) ==
    /\ s # << >>
    /\ isalpha(s[1])
    /\ \A i \in 1..Len(s) : IsWordChar(s[i])

\* C3 (stated as claimed): the destination table of every submitted load job
\* is a valid table id.
C3_ValidTableIds ==
    \A j \in 1..Len(wjobs) : IsValidTableId(wjobs[j].table)

\* the sanitized base name of the file has a first character and it is no letter
BadLeading(file) ==
    /\ TableStem(file) # << >>
    /\ ~isalpha(TableStem(file)[1])

\* C4 (InvalidIdentifier is fatal): while the file the loop is about to
\* examine has a sanitized base name whose first character is not a letter,
\* no job is submitted, and the only step the program takes raises
\* AssertionError; once it is raised the program examines no further file
\* or prefix, makes no request, logs nothing and submits no job.
C4_InvalidIdentifierFatal ==
    [][ /\ (pc = "for_file" /\ files # << >> /\ BadLeading(Head(files)))
            => /\ Len(wjobs') = Len(wjobs)
               /\ jobs' = jobs
               /\ \/ pc' = "raised" /\ error' = "AssertionError"
                  \/ UNCHANGED << pc, error, files, calls, log >>
        /\ (pc = "raised" /\ error = "AssertionError")
            => /\ UNCHANGED << pc, error, files, prefixes, jobs, calls, log, ncall >>
               /\ Len(wjobs') = Len(wjobs)
      ]_vars

\* the assertion has ended a run that had submitted a job for an earlier file
\* of the prefix and had a further prefix to process
C4_Witness ==
    /\ pc = "raised"
    /\ error = "AssertionError"
    /\ jobs # << >>
    /\ prefixes # {}

\* the poll loop of the current call has been left: by the return of line
\* 125, or by the exception of line 109
PollLoopLeft ==
    \/ pc = "for_prefix" /\ ncall > 0
    \/ pc = "raised" /\ error = "JobFailed"

\* job j is no longer outstanding: its call is over, or it has been taken
\* out of jobs
LeftOutstanding(j) ==
    \/ wjobs[j].call < ncall
    \/ /\ pc \in {"poll", "for_prefix", "exit"}
       /\ \A k \in 1..Len(jobs) : jobs[k] # j

\* C5 (stated as claimed): a job that ends with an error payload never ends
\* the run, and every job that has left the outstanding list has the log
\* record of its outcome, an error record for a failed job.
C5_JobErrorLogAndContinue ==
    /\ ~(pc = "raised" /\ error = "JobFailed")
    /\ \A j \in 1..Len(wjobs) :
          LeftOutstanding(j)
            => \E i \in 1..Len(log) :
                  log[i] = [kind |-> IF wjobs[j].state = "error"
                                     THEN "error" ELSE "completed",
                            job |-> j]

\* C6 (stated as claimed): whenever the poll loop has been left, the
\* outstanding list is empty and every job the call submitted is done.
C6_LoopEndsOnlyWhenEmpty ==
    PollLoopLeft
        => /\ jobs = << >>
           /\ \A j \in 1..Len(wjobs) :
                 wjobs[j].call = ncall => JobDone(wjobs[j])

\* C6, the part the failure of C5 leaves standing: the return of line 125
\* is reached only with the outstanding list empty and every job of the
\* call done.
C6_ReturnOnlyWhenEmpty ==
    (pc = "for_prefix" /\ ncall > 0)
        => /\ jobs = << >>
           /\ \A j \in 1..Len(wjobs) : JobDone(wjobs[j])

\* l is m with some elements taken out
RECURSIVE IsSubsequence(_, _)
IsSubsequence(l, m) ==
    IF l = << >> THEN TRUE
    ELSE IF m = << >> THEN FALSE
    ELSE IF Head(l) = Head(m) THEN IsSubsequence(Tail(l), Tail(m))
    ELSE IsSubsequence(l, Tail(m))

\* C7 (stated as claimed): when a pass of the poll loop is over, whether the
\* iterator is exhausted or result() has raised, the outstanding list is
\* shorter than at the start of the pass if a done() of the pass returned
\* True and unchanged if none did; during polling the list never grows.
C7_PassShrinks ==
    /\ ((pc = "poll" /\ ~IteratorHasNext(idx, jobs)) \/ (pc = "raised" /\ error = "JobFailed"))
          => IF observed THEN Len(jobs) < Len(passStart) ELSE jobs = passStart
    /\ pc = "poll" => IsSubsequence(jobs, passStart)

\* C7 for the passes that run to the test of line 124
C7_CompletedPassShrinks ==
    /\ (pc = "poll" /\ ~IteratorHasNext(idx, jobs))
          => IF observed THEN Len(jobs) < Len(passStart) ELSE jobs = passStart
    /\ pc = "poll" => IsSubsequence(jobs, passStart)

\* C8 (dataset get-or-create): in every call of load_prefix_to_dataset the
\* first request is get_dataset and it is made once; create_dataset follows
\* exactly when get_dataset raised NotFound, directly after it and for the
\* same dataset, so at most once; a get_dataset that fails otherwise, or a
\* create_dataset that fails, is the last request of the run: the run is
\* over with that exception, with no listing of tables or files and no load
\* job for that call.
C8_GetOrCreate ==
    \A k \in 1..Len(calls) :
        /\ calls[k].op # "get_dataset"
              => k > 1 /\ calls[k - 1].call = calls[k].call
        /\ calls[k].op = "get_dataset"
              => k = 1 \/ calls[k - 1].call < calls[k].call
        /\ calls[k].op = "create_dataset"
              => /\ calls[k - 1].op = "get_dataset"
                 /\ calls[k - 1].res = "NotFound"
                 /\ calls[k - 1].dataset = calls[k].dataset
        /\ (calls[k].op = "get_dataset" /\ calls[k].res = "NotFound")
              => IF k = Len(calls) THEN pc = "create_dataset"
                 ELSE /\ calls[k + 1].op = "create_dataset"
                      /\ calls[k + 1].call = calls[k].call
        /\ calls[k].res \in {"Forbidden", "CreateFailed"}
              => /\ k = Len(calls)
                 /\ pc = "raised" /\ error = calls[k].res
                 /\ Len(snapshots) < calls[k].call
                 /\ \A j \in 1..Len(wjobs) : wjobs[j].call # calls[k].call

\* one prefix had its dataset created, and the fetch for a later prefix
\* failed with an exception other than NotFound
C8_Witness ==
    /\ error = "Forbidden"
    /\ \E k \in 1..Len(calls) :
          calls[k].op = "create_dataset" /\ calls[k].res = "ok"
    /\ wjobs # << >>

\* C9 (prefixes one after another): between two calls of
\* load_prefix_to_dataset, and in a call up to the listing of its files, the
\* outstanding list is empty; the outstanding list holds jobs of the current
\* call only; and every job of an earlier call is done before anything is
\* requested for a later one.
C9_PrefixesSequential ==
    /\ pc \in {"for_prefix", "get_dataset", "create_dataset", "list_tables",
               "list_files", "exit"}
          => jobs = << >>
    /\ \A k \in 1..Len(jobs) : wjobs[jobs[k]].call = ncall
    /\ \A j \in 1..Len(wjobs) : wjobs[j].call < ncall => JobDone(wjobs[j])

\* the second prefix is being processed after a job of the first was polled
\* to its end
C9_Witness ==
    /\ ncall = 2
    /\ pc = "for_file"
    /\ \E j \in 1..Len(wjobs) : wjobs[j].call = 1

\* the datasets a run fetched or created
DatasetsTouched ==
    {calls[k].dataset : k \in {i \in 1..Len(calls) : calls[i].op = "get_dataset"}}

\* C10 (stated as claimed): when the run ends, it has fetched or created as
\* many datasets as sub-paths were discovered, the ids of distinct sub-paths
\* being distinct.
C10_OneDatasetPerSubPath ==
    pc = "exit"
        => Cardinality(DatasetsTouched)
             = Cardinality(blob_prefixes(bucket, bucket_prefix))

\* the run is the one of Scenario A
InScenarioA ==
    /\ bucket = ScenarioA.bucket
    /\ bucket_prefix = ScenarioA.bucket_prefix

\* the dataset id and the two table ids Scenario A expects
RawOrders == << "r","a","w","_","o","r","d","e","r","s" >>
Table2024 == << "2","0","2","4" >>
Table2025 == << "2","0","2","5" >>

\* C11 (stated as claimed): a run of Scenario A that is over, and was not
\* ended by a failing warehouse request, has ensured the one dataset
\* raw_orders and submitted exactly two load jobs, into tables 2024 and 2025.
C11_ScenarioA_AsClaimed ==
    (InScenarioA /\ pc \in {"exit", "raised"}
       /\ error \notin {"Forbidden", "CreateFailed", "JobFailed"})
        => /\ DatasetsTouched = {RawOrders}
           /\ Len(wjobs) = 2
           /\ {wjobs[j].table : j \in 1..Len(wjobs)} = {Table2024, Table2025}

\* C11 (amended): in Scenario A one sub-path, raw/orders/, is discovered and
\* no dataset other than raw_orders is fetched or created; no load job is
\* ever submitted, the poll loop is never entered and the run never ends
\* normally: once the dataset is there, the first file, 2024.parquet, fails
\* the assertion of line 83 and the run is over with 2025.parquet unexamined.
C11_ScenarioA ==
    InScenarioA
        => /\ pc # "list_prefixes"
                => prefixes \cup {p \in {prefix \o << "/" >>} : ncall > 0}
                     = {ScenarioA.bucket_prefix \o << "o","r","d","e","r","s","/" >>}
           /\ DatasetsTouched \subseteq {RawOrders}
           /\ wjobs = << >>
           /\ pc \notin {"poll", "exit"}
           /\ pc = "raised" => error \in {"AssertionError", "Forbidden", "CreateFailed"}
           /\ (pc = "raised" /\ error = "AssertionError")
                => /\ datasets = {RawOrders}
                   /\ Len(files) = 1
                   /\ DerivedTable(files[1]) = Table2025
                   /\ log[Len(log)].kind = "processing"
                   /\ DerivedTable(log[Len(log)].file) = Table2024

\* Scenario A has ended with the assertion, the dataset raw_orders in place
C11_Witness ==
    /\ InScenarioA
    /\ pc = "raised"
    /\ error = "AssertionError"
    /\ RawOrders \in datasets

(***************************************************************************)
(* The sanitizer on its own: re.sub of lines 81 and 147 applied to every   *)
(* string of a bounded set, and once more to its own result                *)
(***************************************************************************)
\* the characters the strings are made of: letters, a digit, the underscore
\* and characters outside the class
SanAlphabet == {"a", "Z", "1", "_", "-", "/", ".", " "}

\* the largest length of a string given to the sanitizer
MaxLen == 3

SanStrings == UNION {[1..n -> SanAlphabet] : n \in 0..MaxLen}

\* the string to sanitize is in prefix, as at line 147
SanInit ==
    /\ prefix \in SanStrings
    /\ pc = "sanitize"
    /\ bucket = {}
    /\ bucket_prefix = << >>
    /\ table_name_prefix = << >>
    /\ datasets = {}
    /\ tables = {}
    /\ wjobs = << >>
    /\ error = "none"
    /\ prefixes = {}
    /\ dataset_name = << >>
    /\ all_tables_in_dataset = {}
    /\ files = << >>
    /\ jobs = << >>
    /\ idx = 0
    /\ log = << >>
    /\ calls = << >>
    /\ ncall = 0
    /\ snapshots = << >>
    /\ passStart = << >>
    /\ passDone = {}
    /\ observed = FALSE

\* line 147: dataset_name = re.sub(r"[^a-zA-Z0-9_]", "_", prefix)
SanApply ==
    /\ pc = "sanitize"
    /\ dataset_name' = DatasetName(prefix)
    /\ pc' = "sanitized"
    /\ UNCHANGED << inputVars, warehouseVars, error, prefixes, prefix,
                    all_tables_in_dataset, files, jobs, pollVars, historyVars >>

\* the result is sanitized again
SanAgain ==
    /\ pc = "sanitized"
    /\ prefix' = dataset_name
    /\ dataset_name' = DatasetName(dataset_name)
    /\ pc' = "resanitized"
    /\ UNCHANGED << inputVars, warehouseVars, error, prefixes,
                    all_tables_in_dataset, files, jobs, pollVars, historyVars >>

SanNext ==
    \/ SanApply
    \/ SanAgain

SanSpec == SanInit /\ [][SanNext]_vars

\* C12 (sanitizer character set): the sanitizer's result has the length of
\* its input, holds only letters, digits and underscore, has the input's
\* character wherever that is a letter, a digit or an underscore, and an
\* underscore everywhere else.
C12_SanitizerCharacterSet ==
    pc = "sanitized"
        => /\ Len(dataset_name) = Len(prefix)
           /\ \A i \in 1..Len(dataset_name) :
                 /\ dataset_name[i] \in Lower \cup Upper \cup Digits \cup {"_"}
                 /\ dataset_name[i] =
                      IF prefix[i] \in Lower \cup Upper \cup Digits \cup {"_"}
                      THEN prefix[i] ELSE "_"

\* a string with a character of the class and two different characters
\* outside it has been sanitized
C12_Witness ==
    /\ pc = "sanitized"
    /\ \E i, j, k \in 1..Len(prefix) :
          /\ prefix[i] = "Z"
          /\ prefix[j] = "-"
          /\ prefix[k] = "/"

\* C13 (sanitizer idempotence): sanitizing a sanitized string returns it
\* unchanged, and sanitizing a string of letters, digits and underscores
\* returns it unchanged.
C13_SanitizerIdempotent ==
    /\ pc = "resanitized" => dataset_name = prefix
    /\ (pc = "sanitized"
          /\ \A i \in 1..Len(prefix) :
                prefix[i] \in Lower \cup Upper \cup Digits \cup {"_"})
        => dataset_name = prefix

\* the result of sanitizing a string with a character outside the class has
\* been sanitized again
C13_Witness ==
    /\ pc = "resanitized"
    /\ Len(prefix) >= 2
    /\ \E i, j \in 1..Len(prefix) : prefix[i] = "_" /\ prefix[j] = "1"

\* the pass of the poll loop is over: the iterator of line 104 is exhausted
PassOver == pc = "poll" /\ ~IteratorHasNext(idx, jobs)

\* C14 (stated as claimed): when a pass of the poll loop is over, no job
\* that was done when the pass began is still in the outstanding list.
C14_PassHandlesEveryCompleted ==
    PassOver => \A k \in 1..Len(jobs) : jobs[k] \notin passDone

\* the records of the log that give job j's outcome
TerminalRecords(j) ==
    {i \in 1..Len(log) : log[i].kind \in {"completed", "error"} /\ log[i].job = j}

\* C15 (stated as claimed): no job ever has more than one outcome record, a
\* job with an outcome record is not in the outstanding list, which holds no
\* job twice; and when the poll loop has been left, every job of the call has
\* exactly one outcome record and is out of the list.
C15_ExactlyOneTerminalOutcome ==
    /\ \A j \in 1..Len(wjobs) :
          /\ Cardinality(TerminalRecords(j)) <= 1
          /\ TerminalRecords(j) # {} => \A k \in 1..Len(jobs) : jobs[k] # j
    /\ \A k, m \in 1..Len(jobs) : k # m => jobs[k] # jobs[m]
    /\ PollLoopLeft
          => \A j \in 1..Len(wjobs) :
                wjobs[j].call = ncall
                  => /\ Cardinality(TerminalRecords(j)) = 1
                     /\ \A k \in 1..Len(jobs) : jobs[k] # j

\* C15, the part the failure of C5 leaves standing: at most one outcome
\* record per job, never for a job still in the list, and exactly one for
\* every job once the call has returned at line 125.
C15_ExactlyOneWhenReturned ==
    /\ \A j \in 1..Len(wjobs) :
          /\ Cardinality(TerminalRecords(j)) <= 1
          /\ TerminalRecords(j) # {} => \A k \in 1..Len(jobs) : jobs[k] # j
    /\ \A k, m \in 1..Len(jobs) : k # m => jobs[k] # jobs[m]
    /\ (pc = "for_prefix" /\ ncall > 0)
          => \A j \in 1..Len(wjobs) : Cardinality(TerminalRecords(j)) = 1

\* C16 (the table catalog is a snapshot): the step that leaves line 67 sets
\* the catalog to the tables the dataset has at that moment and records the
\* one list_tables request of the call; no other step, be it a submission, a
\* skip, a poll or a job ending in the warehouse, changes the catalog; and
\* files are examined and jobs polled only after the call's own listing.
C16_CatalogSnapshot ==
    [][ /\ (pc = "list_tables" /\ pc' # "list_tables")
            => /\ all_tables_in_dataset'
                    = {t[2] : t \in {u \in tables : u[1] = dataset_name}}
               /\ Len(calls') = Len(calls) + 1
               /\ calls'[Len(calls')].op = "list_tables"
        /\ pc # "list_tables"
            => /\ all_tables_in_dataset' = all_tables_in_dataset
               /\ \A k \in 1..Len(calls') :
                     calls'[k].op = "list_tables" => k <= Len(calls)
        /\ \A c \in 1..ncall' :
              Cardinality({k \in 1..Len(calls') :
                  calls'[k].op = "list_tables" /\ calls'[k].call = c}) <= 1
        /\ pc' \in {"for_file", "poll"}
            => \E k \in 1..Len(calls') :
                  calls'[k].op = "list_tables" /\ calls'[k].call = ncall'
      ]_vars

\* the second prefix is being processed and its catalog is stale: the
\* dataset has a table, loaded by a job of this call, that the catalog lacks
C16_Witness ==
    /\ ncall = 2
    /\ pc \in {"for_file", "poll"}
    /\ \E j \in 1..Len(wjobs) :
          /\ wjobs[j].call = 2
          /\ wjobs[j].state = "ok"
          /\ << dataset_name, wjobs[j].table >> \in tables
          /\ wjobs[j].table \notin all_tables_in_dataset

\* processing of the current prefix has ended: by the return of line 125, or
\* by the exception of line 83
PrefixEnded ==
    \/ pc = "for_prefix" /\ ncall > 0
    \/ pc = "raised" /\ error \in {"AssertionError", "IndexError"}

\* C17 (stated as claimed): when processing of a prefix has ended, by its
\* return or by a failure raised while a file was examined, every job the
\* call submitted has been polled to its outcome.
C17_NoJobLeftUnpolled ==
    PrefixEnded
        => \A j \in 1..Len(wjobs) :
              wjobs[j].call = ncall => TerminalRecords(j) # {}

\* C18 (stated as claimed): the source of every job of the current call lies
\* in the folder of the prefix being processed, and no object is the source
\* of jobs for two datasets.
C18_SourceContainment ==
    /\ \A j \in 1..Len(wjobs) :
          wjobs[j].call = ncall
            => startswith(wjobs[j].source, GsUri(prefix \o << "/" >>))
    /\ \A i, j \in 1..Len(wjobs) :
          wjobs[i].source = wjobs[j].source => wjobs[i].dataset = wjobs[j].dataset

\* C19 (stated as claimed): the examination of a file ends the run with the
\* assertion's failure and with no other exception.
C19_OnlyPreconditionFailure ==
    (pc = "raised" /\ error \notin {"Forbidden", "CreateFailed", "JobFailed"})
        => error = "AssertionError"

====
